---- MODULE Spec2Model ----
(***************************************************************************)
(* Model of start_server.py: a static-file HTTP server that adds no-cache  *)
(* headers to every response, checks index.html, binds a listener, opens   *)
(* the browser and serves until interrupted.                               *)
(*                                                                         *)
(* Strings that the program parses or formats (the CLI argument, the port  *)
(* in the browser URL and in messages) are sequences of one-character      *)
(* strings, so that int() and str() are computed, not assumed.             *)
(* The user sends at most one interrupt per run; it may arrive at any      *)
(* point of the run.                                                       *)
(***************************************************************************)
EXTENDS Integers, Sequences, FiniteSets, TLC

\* ---------------------------------------------------------------- bounds
MaxArgLen == 5       \* longest CLI argument enumerated
MaxRequests == 2     \* requests answered in one run

\* ------------------------------------------------------ program constants
DefaultPort == 8000
ExitOk == 0
ExitError == 1

\* --------------------------------------------------------------- inputs
ArgChars == {"-", "0", "9", "a"}
Dirs == {"script_dir", "launch_dir"}
Paths == {"/index.html", "/missing.html"}

RECURSIVE SeqsUpTo(_, _)
SeqsUpTo(S, n) ==
    IF n = 0 THEN {<<>>}
    ELSE LET shorter == SeqsUpTo(S, n - 1)
         IN  shorter \cup {Append(s, c) : s \in shorter, c \in S}

\* sys.argv[1:]: <<>> when no argument is given, <<arg>> otherwise
ArgvChoices == {<<>>} \cup {<<a>> : a \in SeqsUpTo(ArgChars, MaxArgLen)}

\* ------------------------------------------------------- int() and str()
Digits == {"0", "1", "2", "3", "4", "5", "6", "7", "8", "9"}

DigitValue(c) ==
    CASE c = "0" -> 0 [] c = "1" -> 1 [] c = "2" -> 2 [] c = "3" -> 3
      [] c = "4" -> 4 [] c = "5" -> 5 [] c = "6" -> 6 [] c = "7" -> 7
      [] c = "8" -> 8 [] c = "9" -> 9

IsDigits(s) == Len(s) > 0 /\ \A i \in 1..Len(s) : s[i] \in Digits

RECURSIVE DigitsValue(_)
DigitsValue(s) ==
    IF Len(s) = 0 THEN 0
    ELSE 10 * DigitsValue(SubSeq(s, 1, Len(s) - 1)) + DigitValue(s[Len(s)])

\* int(s) succeeds: an optional sign followed by at least one digit
IntParses(s) ==
    \/ IsDigits(s)
    \/ Len(s) > 1 /\ s[1] = "-" /\ IsDigits(Tail(s))

\* value of int(s) when it succeeds
IntValue(s) ==
    IF s[1] = "-" THEN 0 - DigitsValue(Tail(s)) ELSE DigitsValue(s)

DigitChar(d) ==
    CASE d = 0 -> "0" [] d = 1 -> "1" [] d = 2 -> "2" [] d = 3 -> "3"
      [] d = 4 -> "4" [] d = 5 -> "5" [] d = 6 -> "6" [] d = 7 -> "7"
      [] d = 8 -> "8" [] d = 9 -> "9"

RECURSIVE NatStr(_)
NatStr(n) ==
    IF n < 10 THEN <<DigitChar(n)>>
    ELSE Append(NatStr(n \div 10), DigitChar(n % 10))

\* f"{port}": the canonical decimal form of an int
IntStr(n) == IF n < 0 THEN <<"-">> \o NatStr(0 - n) ELSE NatStr(n)

\* ---------------------------------------------------------------- state
VARIABLES
    pc,              \* position of the process
    argv,            \* sys.argv[1:]
    port,            \* the port variable of __main__ / start_server
    cwd,             \* working directory of the process
    hasIndex,        \* directories that contain index.html
    httpd,           \* the listener: "none", "failed", "bound", "closed"
    server_address,  \* <<>> or <<address httpd was constructed with>>
    browser,         \* URLs passed to webbrowser.open, in order
    request,         \* <<>> or <<response being built>>
    sent,            \* completed responses, in order
    stdout,          \* lines printed, in order
    exit,            \* <<>> or <<[status, cause]>> once the process ended
    interruptedAt,   \* "none", or pc at which KeyboardInterrupt was raised
    log              \* startup steps performed, in order

vars == <<pc, argv, port, cwd, hasIndex, httpd, server_address, browser,
          request, sent, stdout, exit, interruptedAt, log>>

Line(text, value) == [text |-> text, value |-> value]

Init ==
    /\ pc = "main"
    /\ argv \in ArgvChoices
    /\ port = 0
    /\ cwd \in Dirs
    /\ hasIndex \in SUBSET Dirs
    /\ httpd = "none"
    /\ server_address = <<>>
    /\ browser = <<>>
    /\ request = <<>>
    /\ sent = <<>>
    /\ stdout = <<>>
    /\ exit = <<>>
    /\ interruptedAt = "none"
    /\ log = <<>>

\* sys.exit(status), or the interpreter ending on an uncaught exception
Exit(status, cause) ==
    /\ pc' = "exited"
    /\ exit' = <<[status |-> status, cause |-> cause]>>

\* ------------------------------------------------------------- __main__
\* port = 8000; if len(sys.argv) > 1: ...
Main ==
    /\ pc = "main"
    /\ port' = DefaultPort
    /\ pc' = IF Len(argv) > 0 THEN "parse" ELSE "chdir"
    /\ UNCHANGED <<argv, cwd, hasIndex, httpd, server_address, browser,
                   request, sent, stdout, exit, interruptedAt, log>>

\* mutant: the CLI also rejects integers outside 0..65535
ParsePort_RangeChecked ==
    /\ pc = "parse"
    /\ IntParses(argv[1])
    /\ IF IntValue(argv[1]) \in 0..65535
          THEN /\ port' = IntValue(argv[1])
               /\ pc' = "chdir"
               /\ UNCHANGED <<stdout, exit>>
          ELSE /\ stdout' = Append(stdout, Line("Invalid port number: ", argv[1]))
               /\ Exit(ExitError, "sys.exit")
               /\ UNCHANGED port
    /\ UNCHANGED <<argv, cwd, hasIndex, httpd, server_address, browser,
                   request, sent, interruptedAt, log>>

\* port = int(sys.argv[1]) succeeds; start_server(port) is called
ParsePort ==
    /\ pc = "parse"
    /\ IntParses(argv[1])
    /\ port' = IntValue(argv[1])
    /\ pc' = "chdir"
    /\ UNCHANGED <<argv, cwd, hasIndex, httpd, server_address, browser,
                   request, sent, stdout, exit, interruptedAt, log>>

\* mutant: the diagnostic is printed but sys.exit(1) is missing, so control
\* falls through to start_server(port) with the default port
InvalidPort_NoExit ==
    /\ pc = "parse"
    /\ ~IntParses(argv[1])
    /\ stdout' = Append(stdout, Line("Invalid port number: ", argv[1]))
    /\ pc' = "chdir"
    /\ UNCHANGED <<argv, port, cwd, hasIndex, httpd, server_address, browser,
                   request, sent, exit, interruptedAt, log>>

\* except ValueError: print(...); sys.exit(1)
InvalidPort ==
    /\ pc = "parse"
    /\ ~IntParses(argv[1])
    /\ stdout' = Append(stdout, Line("Invalid port number: ", argv[1]))
    /\ Exit(ExitError, "sys.exit")
    /\ UNCHANGED <<argv, port, cwd, hasIndex, httpd, server_address, browser,
                   request, sent, interruptedAt, log>>

\* --------------------------------------------------------- start_server
\* os.chdir(os.path.dirname(os.path.abspath(__file__)))
Chdir ==
    /\ pc = "chdir"
    /\ cwd' = "script_dir"
    /\ log' = Append(log, "chdir")
    /\ pc' = "check"
    /\ UNCHANGED <<argv, port, hasIndex, httpd, server_address, browser,
                   request, sent, stdout, exit, interruptedAt>>

\* os.path.exists('index.html'), relative to the working directory
IndexExists == cwd \in hasIndex

\* mutant: the result of the existence test is ignored
CheckIndex_Unchecked ==
    /\ pc = "check"
    /\ log' = Append(log, "check")
    /\ pc' = "bind"
    /\ UNCHANGED <<argv, port, cwd, hasIndex, httpd, server_address, browser,
                   request, sent, stdout, exit, interruptedAt>>

\* the check passes: fall through to the listener construction
CheckIndex ==
    /\ pc = "check"
    /\ IndexExists
    /\ log' = Append(log, "check")
    /\ pc' = "bind"
    /\ UNCHANGED <<argv, port, cwd, hasIndex, httpd, server_address, browser,
                   request, sent, stdout, exit, interruptedAt>>

\* mutant: the missing-file branch ends with sys.exit(0)
IndexMissing_ExitOk ==
    /\ pc = "check"
    /\ ~IndexExists
    /\ log' = Append(log, "check")
    /\ stdout' = stdout \o
         << Line("Error: index.html not found in the current directory!", <<>>),
            Line("Current directory: ", <<cwd>>),
            Line("Please run this script from the directory containing index.html", <<>>) >>
    /\ Exit(ExitOk, "sys.exit")
    /\ UNCHANGED <<argv, port, cwd, hasIndex, httpd, server_address, browser,
                   request, sent, interruptedAt>>

\* if not os.path.exists('index.html'): three prints, sys.exit(1)
IndexMissing ==
    /\ pc = "check"
    /\ ~IndexExists
    /\ log' = Append(log, "check")
    /\ stdout' = stdout \o
         << Line("Error: index.html not found in the current directory!", <<>>),
            Line("Current directory: ", <<cwd>>),
            Line("Please run this script from the directory containing index.html", <<>>) >>
    /\ Exit(ExitError, "sys.exit")
    /\ UNCHANGED <<argv, port, cwd, hasIndex, httpd, server_address, browser,
                   request, sent, interruptedAt>>

\* socket bind accepts only ports 0..65535 (OverflowError otherwise)
PortInRange(p) == p \in 0..65535

\* httpd = HTTPServer(('', port), NoCacheHTTPRequestHandler) succeeds
Bind ==
    /\ pc = "bind"
    /\ PortInRange(port)
    /\ server_address' = <<[host |-> "", port |-> port]>>
    /\ httpd' = "bound"
    /\ log' = Append(log, "bind")
    /\ pc' = "announce"
    /\ UNCHANGED <<argv, port, cwd, hasIndex, browser, request, sent, stdout,
                   exit, interruptedAt>>

\* mutant: the constructor's exception is swallowed and startup carries on
BindFails_Swallowed ==
    /\ pc = "bind"
    /\ httpd' = "failed"
    /\ pc' = "announce"
    /\ UNCHANGED <<argv, port, cwd, hasIndex, server_address, browser,
                   request, sent, stdout, exit, interruptedAt, log>>

\* the constructor raises: OverflowError for a port outside 0..65535, OSError
\* when the address cannot be bound (in use, no permission).  Nothing in
\* start_server catches it; the interpreter ends with status 1.
BindFails ==
    /\ pc = "bind"
    /\ httpd' = "failed"
    /\ Exit(ExitError, IF PortInRange(port) THEN "OSError" ELSE "OverflowError")
    /\ UNCHANGED <<argv, port, cwd, hasIndex, server_address, browser,
                   request, sent, stdout, interruptedAt, log>>

\* the four prints between the constructor and the try block
Announce ==
    /\ pc = "announce"
    /\ stdout' = stdout \o
         << Line("Starting server on port ", IntStr(port)),
            Line("Serving from directory: ", <<cwd>>),
            Line("Open your browser and navigate to: http://localhost:", IntStr(port)),
            Line("Press Ctrl+C to stop the server", <<>>) >>
    /\ pc' = "browser"
    /\ UNCHANGED <<argv, port, cwd, hasIndex, httpd, server_address, browser,
                   request, sent, exit, interruptedAt, log>>

\* mutant: the URL is built from the default port, not from the argument
BrowserURL_Default(p) == [prefix |-> "http://localhost:", port |-> IntStr(DefaultPort)]

\* f'http://localhost:{port}'
BrowserURL(p) == [prefix |-> "http://localhost:", port |-> IntStr(p)]

\* mutant: webbrowser.open is called before the listener is constructed
OpenBrowser_BeforeBind ==
    /\ \/ /\ pc = "bind"
          /\ browser = <<>>
          /\ browser' = Append(browser, BrowserURL(port))
          /\ log' = Append(log, "browser")
          /\ UNCHANGED pc
       \/ /\ pc = "browser"
          /\ pc' = "serve"
          /\ UNCHANGED <<browser, log>>
    /\ UNCHANGED <<argv, port, cwd, hasIndex, httpd, server_address, request,
                   sent, stdout, exit, interruptedAt>>

\* try: webbrowser.open(f'http://localhost:{port}')
OpenBrowser ==
    /\ pc = "browser"
    /\ browser' = Append(browser, BrowserURL(port))
    /\ log' = Append(log, "browser")
    /\ pc' = "serve"
    /\ UNCHANGED <<argv, port, cwd, hasIndex, httpd, server_address, request,
                   sent, stdout, exit, interruptedAt>>

\* httpd.serve_forever(): enter the blocking accept loop
ServeForever ==
    /\ pc = "serve"
    /\ log' = Append(log, "serve_forever")
    /\ pc' = "serving"
    /\ UNCHANGED <<argv, port, cwd, hasIndex, httpd, server_address, browser,
                   request, sent, stdout, exit, interruptedAt>>

\* ------------------------------------------- NoCacheHTTPRequestHandler
\* headers the base handler puts in the buffer before it calls end_headers
LibraryHeaders ==
    << <<"Server", "library">>, <<"Date", "library">>,
       <<"Content-type", "library">>, <<"Content-Length", "library">> >>

\* a file is served from the working directory
FileExists(path) == path = "/index.html" /\ IndexExists

\* status the base handler answers a GET with
StatusFor(path) == IF FileExists(path) THEN "200" ELSE "404"

\* a request arrives; the base handler sends the status line and its own
\* headers into the buffer and is about to call self.end_headers()
DoGET ==
    /\ pc = "serving"
    /\ request = <<>>
    /\ Len(sent) < MaxRequests
    /\ \E path \in Paths :
         request' = <<[path |-> path, status |-> StatusFor(path),
                       headers |-> LibraryHeaders]>>
    /\ UNCHANGED <<pc, argv, port, cwd, hasIndex, httpd, server_address,
                   browser, sent, stdout, exit, interruptedAt, log>>

NoCacheHeaders ==
    << <<"Cache-Control", "no-cache, no-store, must-revalidate">>,
       <<"Pragma", "no-cache">>,
       <<"Expires", "0">> >>

\* mutant: the three headers are sent after super().end_headers() has already
\* ended the header block, so the completed head lacks them
EndHeaders_AfterSuper ==
    /\ pc = "serving"
    /\ request # <<>>
    /\ sent' = Append(sent, request[1])
    /\ request' = <<>>
    /\ UNCHANGED <<pc, argv, port, cwd, hasIndex, httpd, server_address,
                   browser, stdout, exit, interruptedAt, log>>

\* end_headers(): three send_header calls, then super().end_headers(),
\* which ends the header block and completes the response head
EndHeaders ==
    /\ pc = "serving"
    /\ request # <<>>
    /\ sent' = Append(sent, [request[1] EXCEPT !.headers = @ \o NoCacheHeaders])
    /\ request' = <<>>
    /\ UNCHANGED <<pc, argv, port, cwd, hasIndex, httpd, server_address,
                   browser, stdout, exit, interruptedAt, log>>

\* ------------------------------------------------------------ interrupt
\* mutant: the try block starts after webbrowser.open
InTry_AfterBrowser == {"serve", "serving"}

\* positions inside the try block of start_server
InTry == {"browser", "serve", "serving"}

\* KeyboardInterrupt raised inside the try block: control goes to the handler
InterruptCaught ==
    /\ interruptedAt = "none"
    /\ pc \in InTry
    /\ interruptedAt' = pc
    /\ pc' = "except"
    /\ UNCHANGED <<argv, port, cwd, hasIndex, httpd, server_address, browser,
                   request, sent, stdout, exit, log>>

\* status of the interpreter ending on an uncaught KeyboardInterrupt: 1, or
\* 130 where the interpreter re-raises SIGINT on itself
UncaughtInterruptStatus == {1, 130}

\* KeyboardInterrupt raised outside the try block: nothing catches it
InterruptUncaught ==
    /\ interruptedAt = "none"
    /\ pc \notin InTry \cup {"except", "exited"}
    /\ interruptedAt' = pc
    /\ \E status \in UncaughtInterruptStatus : Exit(status, "KeyboardInterrupt")
    /\ UNCHANGED <<argv, port, cwd, hasIndex, httpd, server_address, browser,
                   request, sent, stdout, log>>

\* mutant: the handler forgets httpd.server_close()
Shutdown_NoClose ==
    /\ pc = "except"
    /\ stdout' = Append(stdout, Line("\nServer stopped.", <<>>))
    /\ Exit(ExitOk, "sys.exit")
    /\ UNCHANGED <<argv, port, cwd, hasIndex, httpd, server_address, browser,
                   request, sent, interruptedAt, log>>

\* except KeyboardInterrupt: print, httpd.server_close(), sys.exit(0)
Shutdown ==
    /\ pc = "except"
    /\ stdout' = Append(stdout, Line("\nServer stopped.", <<>>))
    /\ httpd' = "closed"
    /\ Exit(ExitOk, "sys.exit")
    /\ UNCHANGED <<argv, port, cwd, hasIndex, server_address, browser,
                   request, sent, interruptedAt, log>>

Next ==
    \/ Main
    \/ ParsePort
    \/ InvalidPort
    \/ Chdir
    \/ CheckIndex
    \/ IndexMissing
    \/ Bind
    \/ BindFails
    \/ Announce
    \/ OpenBrowser
    \/ ServeForever
    \/ DoGET
    \/ EndHeaders
    \/ InterruptCaught
    \/ InterruptUncaught
    \/ Shutdown

Spec == Init /\ [][Next]_vars

\* the handler and the response in progress are scheduled by the interpreter
FairSpec == Spec /\ WF_vars(Shutdown) /\ WF_vars(EndHeaders)

TypeOK ==
    /\ pc \in {"main", "parse", "chdir", "check", "bind", "announce", "browser",
               "serve", "serving", "except", "exited"}
    /\ httpd \in {"none", "failed", "bound", "closed"}
    /\ Len(exit) <= 1 /\ Len(request) <= 1 /\ Len(server_address) <= 1
    /\ (pc = "exited") = (exit # <<>>)

\* ---------------------------------------------------------------- claims
HasHeader(r, name, value) ==
    \E i \in 1..Len(r.headers) : r.headers[i] = <<name, value>>

Printed(text) == \E i \in 1..Len(stdout) : stdout[i].text = text

Exited == pc = "exited"
ExitStatus == exit[1].status

\* C1: every completed response, whatever its status (200 for an existing
\* file, 404 for a missing path), carries Cache-Control: no-cache, no-store,
\* must-revalidate, Pragma: no-cache and Expires: 0 in its header block, after
\* the headers the library put there.
C1_NoCacheOnEveryResponse ==
    \A i \in 1..Len(sent) :
        /\ sent[i].status \in {"200", "404"}
        /\ HasHeader(sent[i], "Cache-Control", "no-cache, no-store, must-revalidate")
        /\ HasHeader(sent[i], "Pragma", "no-cache")
        /\ HasHeader(sent[i], "Expires", "0")
        /\ HasHeader(sent[i], "Content-Length", "library")

C1_Witness ==
    \E i, j \in 1..Len(sent) :
        /\ sent[i].path = "/index.html" /\ sent[i].status = "200"
        /\ sent[j].path = "/missing.html" /\ sent[j].status = "404"

\* C2: whenever the listener has been constructed or the browser opened, the
\* index.html check was made after the chdir to the script's directory and
\* found the file; with index.html absent from the script's directory no
\* listener is ever bound, no browser opened, and a run that is not
\* interrupted ends with status 1.
C2_IndexBeforeListener ==
    /\ (httpd # "none" \/ browser # <<>> \/ pc \in {"serve", "serving"}) =>
          /\ Len(log) >= 2 /\ log[1] = "chdir" /\ log[2] = "check"
          /\ cwd = "script_dir"
          /\ "script_dir" \in hasIndex
    /\ "script_dir" \notin hasIndex =>
          /\ httpd = "none" /\ server_address = <<>> /\ browser = <<>>
          /\ pc \notin {"bind", "announce", "browser", "serve", "serving", "except"}
          /\ (Exited /\ interruptedAt = "none") => ExitStatus = 1
          /\ (Exited /\ interruptedAt = "none" /\ (argv = <<>> \/ IntParses(argv[1]))) =>
                Printed("Error: index.html not found in the current directory!")

C2_Witness ==
    /\ Exited /\ "script_dir" \notin hasIndex /\ "launch_dir" \in hasIndex
    /\ log = <<"chdir", "check">>
    /\ ExitStatus = 1

\* C3: with an argument that int() rejects, start_server is never entered:
\* the working directory is unchanged, no index.html check is made, no
\* listener is built, no browser opened; the run, unless interrupted first,
\* ends with status 1 having printed "Invalid port number: " and the argument.
C3_InvalidArgExitsAtOnce ==
    (Len(argv) > 0 /\ ~IntParses(argv[1])) =>
        /\ pc \in {"main", "parse", "exited"}
        /\ log = <<>> /\ httpd = "none" /\ server_address = <<>>
        /\ browser = <<>> /\ sent = <<>>
        /\ (Exited /\ interruptedAt = "none") =>
              /\ ExitStatus = 1
              /\ stdout = <<[text |-> "Invalid port number: ", value |-> argv[1]]>>

C3_Witness ==
    /\ Exited /\ interruptedAt = "none"
    /\ argv = << <<"a", "9">> >>
    /\ Len(stdout) = 1

\* C4: an interrupt raised while the server is in the accept loop leads to
\* the handler having run: the process ends with status 0, the listener
\* closed and "Server stopped." printed last; from the interrupt on no
\* response is started or completed, and the process stays ended.
C4_InterruptWhileServing ==
    /\ [](interruptedAt = "serving" =>
            /\ pc \in {"except", "exited"}
            /\ Exited => /\ ExitStatus = 0
                         /\ httpd = "closed"
                         /\ stdout[Len(stdout)].text = "\nServer stopped.")
    /\ [][interruptedAt = "serving" => (sent' = sent /\ request' = request)]_vars
    /\ [][Exited => pc' = "exited"]_vars
    /\ (interruptedAt = "serving") ~> (Exited /\ httpd = "closed")

C4_Witness ==
    /\ Exited /\ interruptedAt = "serving" /\ httpd = "closed"
    /\ Len(sent) > 0

\* C5: once start_server runs, port is 8000 when no argument was given and
\* int(argument) otherwise; the listener address is ("", port) and the URL
\* given to the browser is "http://localhost:" followed by the decimal form
\* of that same port (reading the URL's port back gives the port).
EffectivePort == IF argv = <<>> THEN 8000 ELSE IntValue(argv[1])

C5_SamePortEverywhere ==
    /\ pc \in {"chdir", "check", "bind", "announce", "browser", "serve", "serving",
               "except"} => port = EffectivePort
    /\ log # <<>> => port = EffectivePort
    /\ server_address # <<>> => server_address = <<[host |-> "", port |-> EffectivePort]>>
    /\ \A i \in 1..Len(browser) :
          /\ browser[i].prefix = "http://localhost:"
          /\ IntParses(browser[i].port)
          /\ IntValue(browser[i].port) = EffectivePort
          /\ server_address = <<[host |-> "", port |-> IntValue(browser[i].port)]>>

C5_Witness ==
    /\ pc = "serving"
    /\ argv = << <<"0", "9", "0">> >>
    /\ browser = <<[prefix |-> "http://localhost:", port |-> <<"9", "0">>]>>
    /\ server_address = <<[host |-> "", port |-> 90]>>

\* C6: the startup steps happen in the order chdir, index.html check, bind,
\* browser, accept loop: the steps performed so far are always a prefix of
\* that order, the accept loop is entered only with all five done, the
\* browser is opened only with the listener bound on ("", port), and each
\* step's effect is in place once it is logged.
StartupOrder == <<"chdir", "check", "bind", "browser", "serve_forever">>

C6_StartupOrder ==
    /\ Len(log) <= Len(StartupOrder)
    /\ log = SubSeq(StartupOrder, 1, Len(log))
    /\ pc = "serving" => log = StartupOrder
    /\ Len(log) >= 1 => cwd = "script_dir"
    /\ Len(log) >= 3 => /\ httpd \in {"bound", "closed"}
                        /\ server_address = <<[host |-> "", port |-> port]>>
                        /\ "script_dir" \in hasIndex
    /\ browser # <<>> => /\ Len(log) >= 4
                         /\ httpd \in {"bound", "closed"}
                         /\ browser = <<[prefix |-> "http://localhost:",
                                         port |-> IntStr(port)]>>
    /\ Len(log) >= 4 => Len(browser) = 1
    /\ (sent # <<>> \/ request # <<>>) => log = StartupOrder

C6_Witness ==
    /\ pc = "serving"
    /\ log = <<"chdir", "check", "bind", "browser", "serve_forever">>
    /\ Len(browser) = 1 /\ httpd = "bound"

\* C7: a run ends with status 0 only after an interrupt was caught by the
\* handler; the server leaves the accept loop only by an interrupt (never by
\* handling a request, whatever its status), and the listener is closed only
\* by the handler.
C7_InterruptIsOnlyShutdown ==
    /\ []((Exited /\ ExitStatus = 0) =>
            /\ interruptedAt \in {"browser", "serve", "serving"}
            /\ Printed("\nServer stopped.")
            /\ httpd = "closed")
    /\ [][(pc = "serving" /\ pc' # "serving") =>
            /\ interruptedAt = "none" /\ interruptedAt' = "serving"
            /\ pc' = "except"
            /\ sent' = sent]_vars
    /\ [][(httpd = "bound" /\ httpd' # "bound") =>
            (pc = "except" /\ interruptedAt # "none" /\ httpd' = "closed")]_vars

C7_Witness ==
    /\ Exited /\ ExitStatus = 0 /\ interruptedAt = "serving"
    /\ \E i \in 1..Len(sent) : sent[i].status = "404"
    /\ \E i \in 1..Len(sent) : sent[i].status = "200"

\* C8: when the listener's construction fails the process has ended with a
\* non-zero status on the uncaught exception, not through the handler: no
\* shutdown message, no browser, no request served, accept loop never
\* entered, nothing listening.
C8_BindFailureIsFatal ==
    httpd = "failed" =>
        /\ Exited
        /\ ExitStatus # 0
        /\ exit[1].cause \in {"OSError", "OverflowError"}
        /\ ~Printed("\nServer stopped.")
        /\ ~Printed("Starting server on port ")
        /\ browser = <<>> /\ sent = <<>> /\ request = <<>>
        /\ server_address = <<>>
        /\ log = <<"chdir", "check">>

C8_Witness ==
    /\ httpd = "failed" /\ Exited
    /\ port = 8000 /\ exit[1].cause = "OSError"

\* C9: the handler covers the browser launch and the accept loop and nothing
\* earlier.  An interrupt raised with the listener bound, at the browser
\* launch or before the accept loop starts, leads to exit status 0 with the
\* listener closed and no request ever served; an interrupt raised at any
\* earlier step ends the process at once on the uncaught exception, with a
\* non-zero status, the listener not closed by the handler and no shutdown
\* message.
C9_HandlerCoversBrowserLaunch ==
    /\ [](interruptedAt \in {"browser", "serve"} =>
            /\ pc \in {"except", "exited"}
            /\ sent = <<>> /\ request = <<>>
            /\ "serve_forever" \notin {log[i] : i \in 1..Len(log)}
            /\ Exited => /\ ExitStatus = 0
                         /\ httpd = "closed"
                         /\ Printed("\nServer stopped."))
    /\ [](interruptedAt \in {"main", "parse", "chdir", "check", "bind", "announce"} =>
            /\ Exited
            /\ ExitStatus # 0
            /\ exit[1].cause = "KeyboardInterrupt"
            /\ httpd # "closed"
            /\ ~Printed("\nServer stopped."))
    /\ (interruptedAt \in {"browser", "serve"}) ~> (Exited /\ httpd = "closed")

C9_Witness ==
    /\ interruptedAt = "browser" /\ Exited
    /\ ExitStatus = 0 /\ httpd = "closed" /\ browser = <<>>

\* C10: an argument that int() accepts never gets the "Invalid port number"
\* diagnostic and reaches start_server with port = int(argument), also when
\* the value is negative or above 65535; such a value never yields a bound
\* listener, and is rejected only at the listener's construction, after the
\* chdir and the index.html check, by an uncaught error with non-zero status.
C10_NoRangeCheck ==
    (Len(argv) > 0 /\ IntParses(argv[1])) =>
        LET v == IntValue(argv[1]) IN
        /\ ~Printed("Invalid port number: ")
        /\ (pc \notin {"main", "parse"} /\ interruptedAt \notin {"main", "parse"}) =>
              port = v
        /\ (Exited /\ interruptedAt = "none") => (Len(log) >= 2 /\ cwd = "script_dir")
        /\ (v < 0 \/ v > 65535) =>
              /\ httpd \in {"none", "failed"}
              /\ pc \notin {"announce", "browser", "serve", "serving", "except"}
              /\ browser = <<>> /\ sent = <<>>
              /\ httpd = "failed" =>
                    /\ log = <<"chdir", "check">> /\ cwd = "script_dir"
                    /\ Exited /\ ExitStatus # 0
                    /\ exit[1].cause = "OverflowError"
              /\ (Exited /\ interruptedAt = "none" /\ "script_dir" \in hasIndex) =>
                    httpd = "failed"

C10_Witness ==
    /\ httpd = "failed" /\ Exited
    /\ argv = << <<"9", "9", "9", "9", "9">> >> /\ port = 99999
    /\ log = <<"chdir", "check">>
====
